---- MODULE Spec2Model ----
(***************************************************************************)
(* InsightWire: the command-queue bridge between synchronous callers and   *)
(* the worker thread that owns the Telegram session.                       *)
(*                                                                         *)
(* Modelled from src/src/insightwire/clients/telegram_session_manager.py:  *)
(* TelegramSessionManager (start, stop, _run_manager, _execute_command)    *)
(* and CommandProcessor (start, stop, process_command and the handlers). *)
(*                                                                         *)
(* Threads are the callers of the facade and the worker threads that       *)
(* start() creates.  A "step" is one of the places where the Python code   *)
(* can be interleaved with another thread: a queue put or get, the read of *)
(* self.running / self.thread, the assignment of them.  A command handler  *)
(* runs as one step (it only touches state the worker thread owns and the  *)
(* file lock, whose acquisition is atomic in the operating system).  The   *)
(* teardown after the loop is two steps: every thread of a manager runs it *)
(* on the processor that self.processor refers to.                         *)
(***************************************************************************)
EXTENDS Naturals, Integers, Sequences, FiniteSets, TLC

\* ------------------------------------------------------------------ bounds
MaxCmds == 3        \* commands a behaviour enqueues in total (stop included)
MaxThreads == 2     \* worker threads a manager creates in a behaviour
MaxLimit == 2       \* largest limit of a get_channel_data
MaxRetries == 3     \* largest max_retries of a safe_execute

Managers == {1, 2}          \* independently constructed TelegramSessionManager
Callers == {1, 2}           \* caller threads (Streamlit script runs)
Threads == 1..MaxThreads
Paths == {"pA", "pB"}       \* resolved session paths; the lock file is path.lock

\* torn is history: how often stop() has invoked the provider's disconnect on
\* this handle
NoClient == [path |-> "none", open |-> FALSE, torn |-> 0]
\* arg is the payload of connect (the session path); names and limit are the
\* payload of get_channel_data
\* arg is also the phone of send_code and sign_in, code the code of sign_in
NoCmd ==
    [id |-> 0, kind |-> "none", arg |-> "none", code |-> "none", names |-> {},
     limit |-> 0]
\* call is the facade call: the method (as kind) and its arguments
NoCall ==
    [id |-> 0, kind |-> "none", afterStop |-> FALSE,
     call |-> [kind |-> "none", arg |-> "none", code |-> "none", names |-> {},
               limit |-> 0]]
\* a result on result_queue is the value val; id, kind and live are history:
\* the command it answers and whether the event loop was open when it ran
\* rows are the rows of a DataFrame result (val = "table"); clean is history:
\* the handler met no refusal and no failure of the provider
NoRes == [id |-> 0, kind |-> "none", val |-> "none", live |-> FALSE,
          names |-> {}, limit |-> 0, rows |-> <<>>, clean |-> FALSE,
          prov |-> <<>>]

\* A holder of a file lock: the FileLock of the client of processor <<m, t>>,
\* or a FileLock no reference leads to any more, <<m, 0>>.
LeakedOf(m) == <<m, 0>>

VARIABLES
    running,     \* [m] TelegramSessionManager.running
    thread,      \* [m] TelegramSessionManager.thread: 0 is None, else a thread
    processor,   \* [m] TelegramSessionManager.processor: 0 is None
    command_queue, \* [m] queue.Queue of commands
    result_queue,  \* [m] queue.Queue of results
    tpc,         \* [m][t] where thread t of m is in _run_manager
    tcur,        \* [m][t] the command thread t took off the queue
    proc,        \* [m][t] the CommandProcessor thread t created
    flock,       \* [path] the holders of the file lock path.lock
    mgrOf,       \* [c] the manager caller c talks to
    cpc,         \* [c] where caller c is in a facade method
    ccall,       \* [c] the command of the caller's current (or last) call
    cret,        \* [c] what the caller's last facade call returned
    nextId,      \* history: identity of the next command put on a queue
    cmds,        \* the commands the callers of this behaviour issue
    sx,          \* the activation of safe_execute (tools/tg_channel.py)
    remote,      \* the dialogs and messages the provider serves
    stopped      \* history [m]: a stop() returned after its join found the thread dead

vars == <<running, thread, processor, command_queue, result_queue, tpc, tcur,
          proc, flock, mgrOf, cmds, sx, remote, cpc, ccall, cret, nextId, stopped>>

\* ------------------------------------------------------------ CommandProcessor
\* orphans counts the provider connections that were open when their client
\* was replaced in self.client: nothing closes them
NewProcessor ==
    [client |-> NoClient, running |-> FALSE, loop |-> "none", orphans |-> 0]

HasClient(p) == p.client.path # "none"

\* FileLock.is_locked of the lock of p's client
IsLocked(p, fl, me) == HasClient(p) /\ me \in fl[p.client.path]

Release(fl, path, who) == [fl EXCEPT ![path] = @ \ {who}]

\* FileLock.acquire(): the lock file is taken iff no FileLock of this process
\* holds it and no other process does (lock = "free")
CanAcquire(fl, path, lock) == fl[path] = {} /\ lock = "free"

Acquire(fl, path, who) == [fl EXCEPT ![path] = @ \cup {who}]

\* prov is history: the operations of the provider the handler invoked, and
\* the acquisition of the file lock when it timed out
Out(p, fl, res) ==
    [p |-> p, fl |-> fl, res |-> res, rows |-> <<>>, clean |-> FALSE, prov |-> <<>>]

\* one operation of the provider with what it did: its value or "raise"
Op(name, ret) == [op |-> name, ret |-> ret]

\* the handler came to out after it invoked the operations ops of the provider
Invoking(ops, out) == [out EXCEPT !.prov = ops]

\* a handler that returns pd.DataFrame(data)
OutRows(p, fl, data, clean) ==
    [p |-> p, fl |-> fl, res |-> "table", rows |-> data, clean |-> clean,
     prov |-> <<>>]

\* CommandProcessor.start
proc_start(p) == [p EXCEPT !.running = TRUE, !.loop = "open"]

\* CommandProcessor.stop up to the end of its try: self.running = False and
\* the provider's disconnect, which is "ok" or "raise"; on a closed event loop
\* run_until_complete raises before the coroutine runs
stop_disconnect(p, disc) ==
    LET invoked == HasClient(p) /\ p.loop = "open" IN
    [p EXCEPT !.running = FALSE,
              !.client = IF invoked
                         THEN [@ EXCEPT !.open = IF disc = "ok" THEN FALSE ELSE @,
                                        !.torn = @ + 1]
                         ELSE @]

\* a CommandProcessor.stop that keeps the lock of a connection it could not
\* close
stop_close_keeps_lock(p, fl, me) ==
    Out([p EXCEPT !.loop = IF @ = "none" THEN "none" ELSE "closed"],
        IF IsLocked(p, fl, me) /\ ~p.client.open
        THEN Release(fl, p.client.path, me) ELSE fl,
        "True")

\* CommandProcessor.stop after its try: the lock is released if it is held,
\* and the event loop is closed
stop_close(p, fl, me) ==
    Out([p EXCEPT !.loop = IF @ = "none" THEN "none" ELSE "closed"],
        IF IsLocked(p, fl, me) THEN Release(fl, p.client.path, me) ELSE fl,
        "True")

\* CommandProcessor.stop as a whole
proc_stop(p, fl, me, disc) ==
    Invoking(IF HasClient(p) /\ p.loop = "open" THEN <<Op("disconnect", disc)>> ELSE <<>>,
             stop_close(stop_disconnect(p, disc), fl, me))

\* What the calls a handler makes into the provider and the file system do:
\* each field is the outcome of one call, chosen by the environment.
\*   lock:  whether another process holds the lock file for the 30 s
\*   mkdir: os.makedirs            ctor: TelegramClientWrapper(...)
\*   conn:  client.connect()       disc: client.disconnect()
\*   auth:  client.is_authorized() dlg:  client.get_dialogs()
\*   msg:   client.get_messages(): which of the calls of one command raises
\*          (0: none; calls after it are not made)
\*   req:   client.send_code_request() or client.sign_in()
\*   fin:   whether the runtime finalizes a FileLock that became unreachable
Outcomes ==
    [lock : {"free", "busy"}, mkdir : {"ok", "raise"}, ctor : {"ok", "raise"},
     conn : {"true", "false", "raise"}, disc : {"ok", "raise"},
     auth : {"true", "false", "raise"}, dlg : {"ok", "raise"},
     msg : 0..Len(remote), req : {"ok", "raise"}, fin : BOOLEAN]

DefaultOutcome ==
    [lock |-> "free", mkdir |-> "ok", ctor |-> "ok", conn |-> "true", disc |-> "ok",
     auth |-> "true", dlg |-> "ok", msg |-> 0, req |-> "ok", fin |-> TRUE]

\* The outcomes a command of this kind consults (the others stay at default).
OutcomesFor(kind) ==
    CASE kind = "connect" ->
           {o \in Outcomes : o.disc = "ok" /\ o.auth = "true" /\ o.dlg = "ok"
                                /\ o.msg = 0 /\ o.req = "ok"}
      [] kind \in {"disconnect", "stop"} ->
           {[DefaultOutcome EXCEPT !.disc = d] : d \in {"ok", "raise"}}
      [] kind = "is_authorized" ->
           {[DefaultOutcome EXCEPT !.auth = a] : a \in {"true", "false", "raise"}}
      [] kind = "get_channels" ->
           {[DefaultOutcome EXCEPT !.auth = a, !.dlg = d] :
                a \in {"true", "false", "raise"}, d \in {"ok", "raise"}}
      [] kind \in {"send_code", "sign_in"} ->
           {[DefaultOutcome EXCEPT !.req = q] : q \in {"ok", "raise"}}
      [] kind = "get_channel_data" ->
           {[DefaultOutcome EXCEPT !.auth = a, !.dlg = d, !.msg = g] :
                a \in {"true", "false", "raise"}, d \in {"ok", "raise"},
                g \in 0..Len(remote)}
      [] OTHER -> {DefaultOutcome}

\* CommandProcessor._handle_stop
handle_stop(p, fl, me, o) == proc_stop(p, fl, me, o.disc)

\* The client that _handle_connect replaces loses its last reference, and its
\* FileLock with it.  A lock that was held stays held by the process unless
\* the runtime finalizes the object (FileLock.__del__ releases).
DropClient(p, fl, me, fin) ==
    IF IsLocked(p, fl, me)
    THEN IF fin THEN Release(fl, p.client.path, me)
         ELSE Acquire(Release(fl, p.client.path, me), p.client.path, LeakedOf(me[1]))
    ELSE fl

\* CommandProcessor._handle_connect once lock.acquire() has returned: the
\* wrapper is constructed and assigned to self.client, then connected
connect_locked(p, fl, me, path, o) ==
    IF o.ctor = "raise"
    THEN \* the constructor raised: released in the except clause
         Out(p, fl, "False")
    ELSE LET fl0 == DropClient(p, fl, me, o.fin)
             held == Acquire(fl0, path, me)
             made == [p EXCEPT !.client = [path |-> path, open |-> FALSE, torn |-> 0],
                               !.orphans = IF p.client.open THEN @ + 1 ELSE @]
         IN  IF p.loop # "open"
             THEN \* run_until_complete raised
                  Out(made, fl0, "False")
             ELSE IF o.conn = "raise"
             THEN \* client.connect() raised
                  Invoking(<<Op("connect", o.conn)>>, Out(made, fl0, "False"))
             ELSE IF o.conn = "true"
             THEN Invoking(<<Op("connect", o.conn)>>,
                           Out([made EXCEPT !.client.open = TRUE], held, "True"))
             ELSE \* client.connect() returned False: returned as it is
                  Invoking(<<Op("connect", o.conn)>>, Out(made, held, "False"))

\* a _handle_connect that goes on without the lock
handle_connect_unlocked(p, fl, me, path, o) == connect_locked(p, fl, me, path, o)

\* a _handle_connect whose new FileLock shares the lock file that the
\* worker's own handle already holds
handle_connect_reentrant(p, fl, me, path, o) ==
    IF ~(fl[path] \subseteq {me} /\ o.lock = "free")
    THEN Invoking(<<Op("acquire", "timeout")>>, Out(p, fl, "False"))
    ELSE connect_locked(p, fl, me, path, o)

\* CommandProcessor._handle_connect, after args was unpacked into path; the
\* acquisition that timed out is recorded with the provider's operations
handle_connect(p, fl, me, path, o) ==
    IF ~CanAcquire(fl, path, o.lock)
    THEN \* lock.acquire() raises Timeout after 30 s; lock.is_locked is False
         Invoking(<<Op("acquire", "timeout")>>, Out(p, fl, "False"))
    ELSE connect_locked(p, fl, me, path, o)

\* CommandProcessor._handle_is_authorized
handle_is_authorized(p, fl, me, o) ==
    IF ~HasClient(p) THEN Out(p, fl, "False")
    ELSE IF p.loop # "open" THEN Out(p, fl, "False")
    ELSE Invoking(<<Op("is_authorized", o.auth)>>,
                  Out(p, fl, IF o.auth = "true" THEN "True" ELSE "False"))

\* CommandProcessor._handle_send_code; req is the provider's
\* send_code_request, which returns True or raises
handle_send_code(p, fl, me, o) ==
    IF ~HasClient(p) THEN Out(p, fl, "False")
    ELSE IF p.loop # "open" THEN Out(p, fl, "False")
    ELSE Invoking(<<Op("send_code_request", o.req)>>,
                  Out(p, fl, IF o.req = "ok" THEN "True" ELSE "False"))

\* CommandProcessor._handle_sign_in, after args was unpacked; req is the
\* provider's sign_in, which returns True or raises
handle_sign_in(p, fl, me, o) ==
    IF ~HasClient(p) THEN Out(p, fl, "False")
    ELSE IF p.loop # "open" THEN Out(p, fl, "False")
    ELSE Invoking(<<Op("sign_in", o.req)>>,
                  Out(p, fl, IF o.req = "ok" THEN "True" ELSE "False"))

\* channels.append(dialog.name) for the dialogs whose entity is a Channel
RECURSIVE channel_names(_, _)
channel_names(channels, dialogs) ==
    IF dialogs = <<>> THEN channels
    ELSE channel_names(IF Head(dialogs).channel
                       THEN Append(channels, Head(dialogs).name)
                       ELSE channels,
                       Tail(dialogs))

\* a list of names as the result of a command
OutList(p, fl, names, clean) ==
    [p |-> p, fl |-> fl, res |-> IF names = <<>> THEN "[]" ELSE "channels",
     rows |-> names, clean |-> clean, prov |-> <<>>]

\* a _handle_get_channels that returns the name of every dialog
handle_get_channels_all(p, fl, me, o) ==
    Invoking(<<Op("is_authorized", o.auth), Op("get_dialogs", o.dlg)>>,
             OutList(p, fl, [i \in DOMAIN remote |-> remote[i].name], TRUE))

\* a _handle_get_channels that asks for the dialogs before it knows that the
\* handle is authorized
handle_get_channels_eager(p, fl, me, o) ==
    Invoking(<<Op("get_dialogs", o.dlg), Op("is_authorized", o.auth)>>,
             IF HasClient(p) /\ o.auth = "true"
             THEN OutList(p, fl, channel_names(<<>>, remote), TRUE)
             ELSE Out(p, fl, "[]"))

\* CommandProcessor._handle_get_channels; "raised" leaves the handler as an
\* exception (the authorization check is outside its try)
handle_get_channels(p, fl, me, o) ==
    IF ~HasClient(p) THEN Out(p, fl, "[]")
    ELSE IF p.loop # "open" THEN Out(p, fl, "raised")
    ELSE IF o.auth = "raise" THEN Invoking(<<Op("is_authorized", o.auth)>>, Out(p, fl, "raised"))
    ELSE IF o.auth = "false" THEN Invoking(<<Op("is_authorized", o.auth)>>, Out(p, fl, "[]"))
    ELSE IF o.dlg = "raise"
    THEN Invoking(<<Op("is_authorized", o.auth), Op("get_dialogs", o.dlg)>>, Out(p, fl, "[]"))
    ELSE Invoking(<<Op("is_authorized", o.auth), Op("get_dialogs", o.dlg)>>,
                  OutList(p, fl, channel_names(<<>>, remote), TRUE))

\* str.strip(): the text without its leading and trailing white space
RECURSIVE lstrip(_)
lstrip(text) ==
    IF text # <<>> /\ Head(text) = " " THEN lstrip(Tail(text)) ELSE text

RECURSIVE rstrip(_)
rstrip(text) ==
    IF text # <<>> /\ text[Len(text)] = " "
    THEN rstrip(SubSeq(text, 1, Len(text) - 1))
    ELSE text

strip(text) == rstrip(lstrip(text))

\* a text that is taken as it is
message_text_raw(message) == IF message.none THEN <<>> ELSE message.text

\* text = message.text.strip() if message.text else ""
message_text(message) ==
    IF message.none \/ message.text = <<>> THEN <<>> ELSE strip(message.text)

\* client.get_messages(dialog, limit=limit): the first limit messages the
\* provider has for the dialog
get_messages(dialog, limit) ==
    SubSeq(dialog.msgs, 1, IF limit < Len(dialog.msgs) THEN limit ELSE Len(dialog.msgs))

\* for message in msgs: ... data.append({...})
RECURSIVE rows_of_messages(_, _, _)
rows_of_messages(data, name, msgs) ==
    IF msgs = <<>> THEN data
    ELSE LET message == Head(msgs)
             text == message_text(message)
         IN  rows_of_messages(
                 IF text = <<>> THEN data
                 ELSE Append(data, [channel |-> name, text |-> text,
                                    views |-> message.views]),
                 name, Tail(msgs))

\* for dialog in dialogs: if dialog.name in target_channels: ...
\* acc is where the loop stands: the rows in data, the calls of get_messages
\* made so far (ops) and whether the last one raised; fail is the call that
\* raises
RECURSIVE fetch_dialogs(_, _, _, _, _)
fetch_dialogs(acc, dialogs, target_channels, limit, fail) ==
    IF dialogs = <<>> THEN acc
    ELSE LET dialog == Head(dialogs) IN
         IF dialog.name \notin target_channels
         THEN fetch_dialogs(acc, Tail(dialogs), target_channels, limit, fail)
         ELSE IF Len(acc.ops) + 1 = fail
         THEN \* get_messages raises: the loop is left for the except clause
              [acc EXCEPT !.ops = Append(@, Op("get_messages", "raise")),
                          !.raised = TRUE]
         ELSE fetch_dialogs(
                  [acc EXCEPT !.ops = Append(@, Op("get_messages", "ok")),
                              !.data = rows_of_messages(@, dialog.name,
                                                        get_messages(dialog, limit))],
                  Tail(dialogs), target_channels, limit, fail)

\* data = [] before the loop
NoData == [data |-> <<>>, ops |-> <<>>, raised |-> FALSE]

\* a _handle_get_channel_data that drops the handle it used
handle_get_channel_data_drops(p, fl, me, cmd, o) ==
    OutRows([p EXCEPT !.client = NoClient], fl,
            fetch_dialogs(NoData, remote, cmd.names, cmd.limit, 0).data, TRUE)

\* a _handle_get_channel_data whose except clause returns the rows it has
handle_get_channel_data_partial(p, fl, me, cmd, o) ==
    LET f == fetch_dialogs(NoData, remote, cmd.names, cmd.limit, o.msg) IN
    Invoking(<<Op("is_authorized", o.auth), Op("get_dialogs", o.dlg)>> \o f.ops,
             OutRows(p, fl, f.data, ~f.raised))

\* CommandProcessor._handle_get_channel_data; the dialogs and messages are
\* the ones the provider serves (remote)
handle_get_channel_data(p, fl, me, cmd, o) ==
    LET f == fetch_dialogs(NoData, remote, cmd.names, cmd.limit, o.msg)
        ops == <<Op("is_authorized", o.auth), Op("get_dialogs", o.dlg)>> \o f.ops
    IN
    IF ~HasClient(p) THEN OutRows(p, fl, <<>>, FALSE)
    ELSE IF p.loop # "open" THEN Out(p, fl, "raised")
    ELSE IF o.auth = "raise" THEN Invoking(<<Op("is_authorized", o.auth)>>, Out(p, fl, "raised"))
    ELSE IF o.auth = "false"
    THEN Invoking(<<Op("is_authorized", o.auth)>>, OutRows(p, fl, <<>>, FALSE))
    ELSE IF o.dlg = "raise"
    THEN Invoking(<<Op("is_authorized", o.auth), Op("get_dialogs", o.dlg)>>, OutRows(p, fl, <<>>, FALSE))
    ELSE IF f.raised
    THEN \* the except clause: the rows collected so far are dropped
         Invoking(ops, OutRows(p, fl, <<>>, FALSE))
    ELSE Invoking(ops, OutRows(p, fl, f.data, TRUE))

\* CommandProcessor._handle_disconnect
handle_disconnect(p, fl, me, o) ==
    IF ~HasClient(p) THEN Out(p, fl, "True")
    ELSE IF p.loop # "open" THEN Out(p, fl, "False")
    ELSE IF o.disc = "raise"
    THEN \* the except clause: nothing released, nothing cleared
         Invoking(<<Op("disconnect", o.disc)>>, Out(p, fl, "False"))
    ELSE Invoking(<<Op("disconnect", o.disc)>>,
                  Out([p EXCEPT !.client = NoClient],
                      IF IsLocked(p, fl, me) THEN Release(fl, p.client.path, me)
                      ELSE fl,
                      "True"))

\* The handler that process_command selects; "raised" stands for an
\* exception that leaves the handler.
Handler(p, fl, me, cmd, o) ==
    CASE cmd.kind = "stop" -> handle_stop(p, fl, me, o)
      [] cmd.kind = "connect" ->
           IF cmd.arg \notin Paths THEN Out(p, fl, "raised")     \* unpacking args
           ELSE IF o.mkdir = "raise" THEN Out(p, fl, "raised")   \* os.makedirs
           ELSE handle_connect(p, fl, me, cmd.arg, o)
      [] cmd.kind = "is_authorized" -> handle_is_authorized(p, fl, me, o)
      [] cmd.kind = "send_code" -> handle_send_code(p, fl, me, o)
      [] cmd.kind = "sign_in" ->
           IF cmd.code = "none" THEN Out(p, fl, "raised")        \* unpacking args
           ELSE handle_sign_in(p, fl, me, o)
      [] cmd.kind = "get_channels" -> handle_get_channels(p, fl, me, o)
      [] cmd.kind = "get_channel_data" -> handle_get_channel_data(p, fl, me, cmd, o)
      [] cmd.kind = "disconnect" -> handle_disconnect(p, fl, me, o)
      [] OTHER -> Out(p, fl, "None")                             \* unknown command

\* a process_command that lets the exception of a handler through
process_command_propagates(p, fl, me, cmd, o) == Handler(p, fl, me, cmd, o)

\* CommandProcessor.process_command: an exception becomes the result None
process_command(p, fl, me, cmd, o) ==
    LET h == Handler(p, fl, me, cmd, o)
    IN  IF h.res = "raised" THEN [h EXCEPT !.res = "None"] ELSE h

\* ------------------------------------------------------ TelegramSessionManager
\* threading.Thread.is_alive() of self.thread
Alive(m) == thread[m] # 0 /\ tpc[m][thread[m]] \notin {"unborn", "dead"}

Unborn(m) == {t \in Threads : tpc[m][t] = "unborn"}

\* callers that are between the test in start() and the creation of the thread
Spawning(m) == {c \in Callers : mgrOf[c] = m /\ cpc[c] = "spawn"}

CanSpawn(m) == Cardinality(Spawning(m)) < Cardinality(Unborn(m))

\* commands that callers which are inside start() are about to put
Pending == Cardinality({c \in Callers : cpc[c] = "spawn" /\ ccall[c].kind = "cmd"})

\* the test of TelegramSessionManager.start
start_needed(m) == thread[m] = 0 \/ ~Alive(m)

\* the test of _execute_command followed by the one of start
lazy_start(m) == ~running[m] /\ start_needed(m)

\* the commands a caller issues through the facade (_execute_command);
\* "bogus" is a kind process_command does not know, connect with "bad" a
\* payload that is no 4-tuple
FacadeCmds ==
    [kind : {"connect"}, arg : Paths \cup {"bad"}, code : {"none"}, names : {{}},
     limit : {0}]
    \cup [kind : {"is_authorized", "get_channels", "disconnect", "bogus"},
          arg : {"none"}, code : {"none"}, names : {{}}, limit : {0}]

\* the command of TelegramSessionManager.stop
StopCmd ==
    [kind |-> "stop", arg |-> "none", code |-> "none", names |-> {}, limit |-> 0]

\* The working directory of the process, as the components of its path.
Cwd == <<"app">>

\* The session directories of this model as paths: whether the path is
\* absolute, and its components.  "pA" and "pB" are the absolute paths that
\* Paths names; "sA" and "tmp/../sA" are relative.
Parts(session_dir) ==
    CASE session_dir = "pA" -> [abs |-> TRUE, parts |-> <<"app", "sessions", "sA">>]
      [] session_dir = "pB" -> [abs |-> TRUE, parts |-> <<"data", "sB">>]
      [] session_dir = "sA" -> [abs |-> FALSE, parts |-> <<"sA">>]
      [] session_dir = "tmp/../sA" -> [abs |-> FALSE, parts |-> <<"tmp", "..", "sA">>]
      [] OTHER -> [abs |-> TRUE, parts |-> <<session_dir>>]

\* os.path.isabs
isabs(session_dir) == Parts(session_dir).abs

\* os.path.normpath on components: ".." removes the component before it
RECURSIVE normpath(_, _)
normpath(done, rest) ==
    IF rest = <<>> THEN done
    ELSE IF Head(rest) = ".."
    THEN normpath(IF done = <<>> THEN done ELSE SubSeq(done, 1, Len(done) - 1),
                  Tail(rest))
    ELSE normpath(Append(done, Head(rest)), Tail(rest))

\* os.path.abspath: the path from the working directory, normalized
abspath(parts) == normpath(<<>>, Cwd \o parts)

\* the name this model has for an absolute path
Named(parts) == CHOOSE x \in Paths : Parts(x).parts = parts

\* a connect that passes the session directory on as it is
resolve_verbatim(session_dir) == session_dir

\* TelegramSessionManager.connect: the session directory it puts in the payload
resolve(session_dir) ==
    IF ~isabs(session_dir)
    THEN Named(abspath(<<"sessions">> \o Parts(session_dir).parts))
    ELSE session_dir

\* facade methods that put the name of the method as the command
facade_command_verbatim(k) == k

\* The command a facade method puts: k.kind is the method, the other fields
\* of k are its arguments.  Kinds that are no method of the facade stand for
\* _execute_command(kind, args) itself.
facade_command(k) ==
    CASE k.kind = "connect" -> [k EXCEPT !.arg = resolve(k.arg)]
      [] k.kind = "send_code_request" -> [k EXCEPT !.kind = "send_code"]
      [] OTHER -> k

\* a put that loses the command
Put_loses(q, m, id, k) == q

\* self.command_queue.put((command, args))
Put(q, m, id, k) ==
    [q EXCEPT ![m] = Append(@, [id |-> id, kind |-> k.kind, arg |-> k.arg,
                                code |-> k.code, names |-> k.names,
                                limit |-> k.limit])]

\* None, as a result and as an error of safe_execute
None == [kind |-> "None", at |-> 0]

\* no safe_execute is active
SxIdle ==
    [pc |-> "idle", fn |-> <<>>, max_retries |-> 0, retry_count |-> 0,
     last_error |-> None, calls |-> 0, slept |-> <<>>,
     result |-> None, error |-> None]

\* TelegramSessionManager.__init__, and no thread and no caller yet
InitQueues ==
    /\ running = [m \in Managers |-> FALSE]
    /\ thread = [m \in Managers |-> 0]
    /\ processor = [m \in Managers |-> 0]
    /\ command_queue = [m \in Managers |-> <<>>]
    /\ result_queue = [m \in Managers |-> <<>>]
    /\ tpc = [m \in Managers |-> [t \in Threads |-> "unborn"]]
    /\ tcur = [m \in Managers |-> [t \in Threads |-> NoCmd]]
    /\ proc = [m \in Managers |-> [t \in Threads |-> NewProcessor]]
    /\ flock = [x \in Paths |-> {}]
    /\ cpc = [c \in Callers |-> "idle"]
    /\ ccall = [c \in Callers |-> NoCall]
    /\ cret = [c \in Callers |-> NoRes]
    /\ stopped = [m \in Managers |-> FALSE]

InitManager == InitQueues /\ nextId = 1

InitShared == InitManager /\ sx = SxIdle

\* one caller at a time uses the singleton telegram_manager, with every
\* command of the facade
Init ==
    /\ InitShared
    /\ mgrOf = [c \in Callers |-> IF c = 1 THEN 1 ELSE 0]
    /\ cmds = FacadeCmds
    /\ remote = <<>>

\* two callers (two script runs) use the singleton telegram_manager at once
InitRace ==
    /\ InitShared
    /\ mgrOf = [c \in Callers |-> 1]
    /\ cmds = {k \in FacadeCmds : k.kind \in {"is_authorized"}}
    /\ remote = <<>>

\* two callers use the singleton telegram_manager at once, and connect; a
\* connect and a stop make a shutdown with a handle, so the behaviours issue
\* MaxCmds - 1 commands: the identities start at 2
InitShut ==
    /\ InitQueues /\ nextId = 2 /\ sx = SxIdle
    /\ mgrOf = [c \in Callers |-> 1]
    /\ cmds = {k \in FacadeCmds : k.kind = "connect" /\ k.arg = "pA"}
    /\ remote = <<>>

\* each caller has constructed a TelegramSessionManager of its own, and both
\* use the same session path
InitTwo ==
    /\ InitShared
    /\ mgrOf = [c \in Callers |-> c]
    /\ cmds = {k \in FacadeCmds : k.kind \in {"connect", "disconnect"} /\ k.arg \in {"pA", "none"}}
    /\ remote = <<>>

\* texts of messages: "h" stands for any character that is no white space
Hi == <<"h">>
Padded == <<" ", "h", " ">>
Blank == <<" ", " ">>

Message(text, views) == [text |-> text, none |-> FALSE, views |-> views]

\* a message without text (message.text is None), e.g. a photo
NoText(views) == [text |-> <<>>, none |-> TRUE, views |-> views]

Dialog(name, channel, msgs) == [name |-> name, channel |-> channel, msgs |-> msgs]

\* what the provider may serve: lists of dialogs with their messages
Remotes ==
    { <<Dialog("A", TRUE, <<Message(Hi, 5), Message(<<>>, 3)>>),
        Dialog("B", TRUE, <<Message(Hi, 9)>>)>>,
      <<Dialog("B", FALSE, <<Message(Blank, 1), Message(Padded, 2)>>),
        Dialog("A", TRUE, <<NoText(4), Message(Hi, 6)>>)>>,
      <<Dialog("A", TRUE, <<Message(Padded, 7)>>),
        Dialog("A", FALSE, <<Message(Hi, 8), Message(Hi, 8)>>)>>,
      <<>> }

\* the payloads of get_channel_data
DataCmds ==
    [kind : {"get_channel_data"}, arg : {"none"}, code : {"none"},
     names : {{}, {"A"}, {"A", "B"}}, limit : 0..MaxLimit]

\* one caller uses the singleton to read channels of a provider that serves
\* one of Remotes
InitData ==
    /\ InitShared
    /\ mgrOf = [c \in Callers |-> IF c = 1 THEN 1 ELSE 0]
    /\ cmds = {k \in FacadeCmds : k.kind \in {"connect", "get_channels"} /\ k.arg \in {"pA", "none"}}
              \cup DataCmds
    /\ remote \in Remotes

\* one caller uses the singleton with every command of the facade against a
\* provider that serves the first two dialogs
InitAll ==
    /\ InitShared
    /\ mgrOf = [c \in Callers |-> IF c = 1 THEN 1 ELSE 0]
    /\ cmds = FacadeCmds \cup {k \in DataCmds : k.names # {}}
    /\ remote \in {r \in Remotes : Len(r) = 2 /\ r[1].name # r[2].name /\ r[1].channel}

\* the calls of the facade with their arguments, and the commands of
\* terms of service as _execute_command would put them
FacadeCalls ==
    [kind : {"connect"}, arg : {"sA", "tmp/../sA", "pB"}, code : {"none"},
     names : {{}}, limit : {0}]
    \cup [kind : {"is_authorized", "get_channels", "disconnect",
                  "get_terms_of_service_update"},
          arg : {"none"}, code : {"none"}, names : {{}}, limit : {0}]
    \cup [kind : {"send_code_request", "accept_terms_of_service",
                  "decline_terms_of_service"},
          arg : {"ph"}, code : {"none"}, names : {{}}, limit : {0}]
    \cup [kind : {"sign_in"}, arg : {"ph"}, code : {"12"}, names : {{}}, limit : {0}]
    \cup {k \in DataCmds : k.names = {"A"} /\ k.limit = 1}

\* one caller uses the singleton through the methods of the facade
InitFacade ==
    /\ InitShared
    /\ mgrOf = [c \in Callers |-> IF c = 1 THEN 1 ELSE 0]
    /\ cmds = FacadeCalls
    /\ remote \in {r \in Remotes : Len(r) = 2 /\ ~r[1].channel}

\* _execute_command while self.running is set: the command is put
execute_command(c) ==
    LET m == mgrOf[c] IN
    /\ m \in Managers
    /\ cpc[c] = "idle"
    /\ nextId + Pending <= MaxCmds
    /\ ~lazy_start(m)
    /\ \E k \in cmds :
         /\ command_queue' = Put(command_queue, m, nextId, facade_command(k))
         /\ ccall' = [ccall EXCEPT ![c] =
                         [id |-> nextId, kind |-> "cmd", afterStop |-> FALSE,
                          call |-> k]]
    /\ nextId' = nextId + 1
    /\ UNCHANGED cret
    /\ cpc' = [cpc EXCEPT ![c] = "get"]
    /\ UNCHANGED <<running, thread, processor, result_queue, tpc, tcur, proc,
                   flock, mgrOf, cmds, sx, remote, stopped>>

\* _execute_command while self.running is not set: start() is entered and
\* finds no live thread
execute_command_start(c) ==
    LET m == mgrOf[c] IN
    /\ m \in Managers
    /\ cpc[c] = "idle"
    /\ nextId + Pending <= MaxCmds
    /\ lazy_start(m)
    /\ CanSpawn(m)
    /\ ccall' = [ccall EXCEPT ![c] =
                    [NoCall EXCEPT !.kind = "cmd", !.afterStop = stopped[m]]]
    /\ UNCHANGED cret
    /\ cpc' = [cpc EXCEPT ![c] = "spawn"]
    /\ UNCHANGED <<running, thread, processor, command_queue, result_queue,
                   tpc, tcur, proc, flock, mgrOf, cmds, sx, remote, nextId, stopped>>

\* TelegramSessionManager.start called by the page script: the test
start(c) ==
    LET m == mgrOf[c] IN
    /\ m \in Managers
    /\ cpc[c] = "idle"
    /\ start_needed(m)
    /\ CanSpawn(m)
    /\ ccall' = [ccall EXCEPT ![c] = [NoCall EXCEPT !.kind = "start"]]
    /\ UNCHANGED cret
    /\ cpc' = [cpc EXCEPT ![c] = "spawn"]
    /\ UNCHANGED <<running, thread, processor, command_queue, result_queue,
                   tpc, tcur, proc, flock, mgrOf, cmds, sx, remote, nextId, stopped>>

\* TelegramSessionManager.start: the body of the if; a caller that came
\* from _execute_command then puts its command
start_thread(c) ==
    LET m == mgrOf[c] IN
    /\ m \in Managers
    /\ cpc[c] = "spawn"
    /\ \E t \in Unborn(m) :
         /\ \A u \in Unborn(m) : t <= u
         /\ running' = [running EXCEPT ![m] = TRUE]
         /\ thread' = [thread EXCEPT ![m] = t]
         /\ tpc' = [tpc EXCEPT ![m][t] = "init"]
    /\ IF ccall[c].kind = "start"
       THEN /\ cpc' = [cpc EXCEPT ![c] = "idle"]
            /\ UNCHANGED <<command_queue, ccall, nextId>>
       ELSE /\ \E k \in cmds :
                 /\ command_queue' = Put(command_queue, m, nextId, facade_command(k))
                 /\ ccall' = [ccall EXCEPT ![c].id = nextId, ![c].call = k]
            /\ nextId' = nextId + 1
            /\ cpc' = [cpc EXCEPT ![c] = "get"]
    /\ UNCHANGED <<processor, result_queue, tcur, proc, flock, mgrOf, cmds, sx, remote,
                   cret, stopped>>

\* _execute_command: return self.result_queue.get()
get_result(c) ==
    LET m == mgrOf[c] IN
    /\ m \in Managers
    /\ cpc[c] = "get"
    /\ result_queue[m] # <<>>
    /\ cret' = [cret EXCEPT ![c] = Head(result_queue[m])]
    /\ result_queue' = [result_queue EXCEPT ![m] = Tail(@)]
    /\ cpc' = [cpc EXCEPT ![c] = "idle"]
    /\ UNCHANGED <<running, thread, processor, command_queue, tpc, tcur, proc,
                   flock, mgrOf, cmds, sx, remote, ccall, nextId, stopped>>

\* TelegramSessionManager.stop up to the join
stop(c) ==
    LET m == mgrOf[c] IN
    /\ m \in Managers
    /\ cpc[c] = "idle"
    /\ nextId + Pending <= MaxCmds
    /\ Alive(m)
    /\ running' = [running EXCEPT ![m] = FALSE]
    /\ command_queue' = Put(command_queue, m, nextId, StopCmd)
    /\ nextId' = nextId + 1
    /\ ccall' = [ccall EXCEPT ![c] =
                    [NoCall EXCEPT !.id = nextId, !.kind = "stop", !.call = StopCmd]]
    /\ UNCHANGED cret
    /\ cpc' = [cpc EXCEPT ![c] = "join"]
    /\ UNCHANGED <<thread, processor, result_queue, tpc, tcur, proc, flock,
                   mgrOf, cmds, sx, remote, stopped>>

\* TelegramSessionManager.stop: self.thread.join(timeout=5) returns, because
\* the thread ended or because the 5 s are over
join(c) ==
    LET m == mgrOf[c] IN
    /\ m \in Managers
    /\ cpc[c] = "join"
    /\ cpc' = [cpc EXCEPT ![c] = "idle"]
    /\ stopped' = [stopped EXCEPT ![m] = @ \/ ~Alive(m)]
    /\ UNCHANGED <<running, thread, processor, command_queue, result_queue,
                   tpc, tcur, proc, flock, mgrOf, cmds, sx, remote, ccall, cret, nextId>>

\* ------------------------------------------------- _run_manager, thread t of m
\* self.processor = CommandProcessor(...); self.processor.start()
run_manager_init(m, t) ==
    /\ tpc[m][t] = "init"
    /\ processor' = [processor EXCEPT ![m] = t]
    /\ proc' = [proc EXCEPT ![m][t] = proc_start(NewProcessor)]
    /\ tpc' = [tpc EXCEPT ![m][t] = "check"]
    /\ UNCHANGED <<running, thread, command_queue, result_queue, tcur, flock,
                   mgrOf, cmds, sx, remote, cpc, ccall, cret, nextId, stopped>>

\* while self.running:
run_manager_test(m, t) ==
    /\ tpc[m][t] = "check"
    /\ tpc' = [tpc EXCEPT ![m][t] = IF running[m] THEN "poll" ELSE "cleanup"]
    /\ UNCHANGED <<running, thread, processor, command_queue, result_queue,
                   tcur, proc, flock, mgrOf, cmds, sx, remote, cpc, ccall, cret, nextId, stopped>>

\* command, args = self.command_queue.get(timeout=0.1)
run_manager_get(m, t) ==
    /\ tpc[m][t] = "poll"
    /\ command_queue[m] # <<>>
    /\ tcur' = [tcur EXCEPT ![m][t] = Head(command_queue[m])]
    /\ command_queue' = [command_queue EXCEPT ![m] = Tail(@)]
    /\ tpc' = [tpc EXCEPT ![m][t] = "busy"]
    /\ UNCHANGED <<running, thread, processor, result_queue, proc, flock,
                   mgrOf, cmds, sx, remote, cpc, ccall, cret, nextId, stopped>>

\* except queue.Empty: pass
run_manager_empty(m, t) ==
    /\ tpc[m][t] = "poll"
    /\ command_queue[m] = <<>>
    /\ tpc' = [tpc EXCEPT ![m][t] = "check"]
    /\ UNCHANGED <<running, thread, processor, command_queue, result_queue,
                   tcur, proc, flock, mgrOf, cmds, sx, remote, cpc, ccall, cret, nextId, stopped>>

\* a _run_manager that a failed command ends
after_dispatch_raises(res) == IF res = "None" THEN "dead" ELSE "check"

\* where _run_manager goes after process_command returned res: no result
\* and no exception leaves the loop
after_dispatch(res) == "check"

\* result = self.processor.process_command(command, args)
\* self.result_queue.put(result)
run_manager_dispatch(m, t) ==
    /\ tpc[m][t] = "busy"
    /\ LET pr == processor[m]
           cmd == tcur[m][t]
       IN  \E o \in OutcomesFor(cmd.kind) :
             LET r == process_command(proc[m][pr], flock, <<m, pr>>, cmd, o) IN
             /\ proc' = [proc EXCEPT ![m][pr] = r.p]
             /\ flock' = r.fl
             /\ result_queue' = [result_queue EXCEPT ![m] =
                    Append(@, [id |-> cmd.id, kind |-> cmd.kind, val |-> r.res,
                               live |-> proc[m][pr].loop = "open",
                               names |-> cmd.names, limit |-> cmd.limit,
                               rows |-> r.rows, clean |-> r.clean,
                               prov |-> r.prov])]
             /\ tpc' = [tpc EXCEPT ![m][t] = after_dispatch(r.res)]
    /\ tcur' = [tcur EXCEPT ![m][t] = NoCmd]
    /\ UNCHANGED <<running, thread, processor, command_queue, mgrOf, cmds, sx, remote,
                   cpc, ccall, cret, nextId, stopped>>

\* after the loop: if self.processor: self.processor.stop().  The threads
\* that start() created for one manager leave the loop on the same
\* self.running and call stop() of the same processor, so stop() is two steps
\* here: up to the disconnect, and from the release of the lock on.
run_manager_cleanup(m, t) ==
    /\ tpc[m][t] = "cleanup"
    /\ LET pr == processor[m] IN
       \E d \in {"ok", "raise"} :
         proc' = [proc EXCEPT ![m][pr] = stop_disconnect(proc[m][pr], d)]
    /\ tpc' = [tpc EXCEPT ![m][t] = "close"]
    /\ UNCHANGED <<running, thread, processor, command_queue, result_queue,
                   tcur, flock, mgrOf, cmds, sx, remote, cpc, ccall, cret, nextId,
                   stopped>>

\* the rest of self.processor.stop(), and the thread ends
run_manager_close(m, t) ==
    /\ tpc[m][t] = "close"
    /\ LET pr == processor[m]
           r == stop_close(proc[m][pr], flock, <<m, pr>>)
       IN  /\ proc' = [proc EXCEPT ![m][pr] = r.p]
           /\ flock' = r.fl
    /\ tpc' = [tpc EXCEPT ![m][t] = "dead"]
    /\ UNCHANGED <<running, thread, processor, command_queue, result_queue,
                   tcur, mgrOf, cmds, sx, remote, cpc, ccall, cret, nextId, stopped>>

\* ------------------------------------------- safe_execute (tools/tg_channel.py)
\* the variables of the session manager
mvars == <<running, thread, processor, command_queue, result_queue, tpc, tcur,
           proc, flock, mgrOf, cmds, remote, cpc, ccall, cret, nextId, stopped>>

\* What one invocation of func does:
\*   "value"   it returns a value
\*   "locked"  it raises an exception whose text contains "database is locked"
\*   "other"   it raises an exception with another text
\*   "timeout" it is telegram_manager.connect while another process holds the
\*             lock file of the session for the 30 s of lock.acquire
Behaviours == {"value", "locked", "other", "timeout"}

\* telegram_manager.connect on a started worker without handle, with the lock
\* file held elsewhere: what process_command gives is what connect returns
connect_on_busy_lock ==
    process_command(proc_start(NewProcessor), [x \in Paths |-> {}], <<1, 1>>,
                    [NoCmd EXCEPT !.kind = "connect", !.arg = "pA"],
                    [DefaultOutcome EXCEPT !.lock = "busy"]).res

\* the n-th invocation of func: the exception it raises, with its text, or
\* the value it returns
Invoke(behaviour, n) ==
    CASE behaviour = "value" -> [raised |-> FALSE, val |-> [kind |-> "value", at |-> n]]
      [] behaviour = "timeout" ->
           IF connect_on_busy_lock = "raised"
           THEN [raised |-> TRUE, val |-> [kind |-> "timeout", at |-> n]]
           ELSE [raised |-> FALSE, val |-> [kind |-> connect_on_busy_lock, at |-> n]]
      [] OTHER -> [raised |-> TRUE, val |-> [kind |-> behaviour, at |-> n]]

\* a test that finds the lock signature in no text
is_lock_error_never(text) == FALSE

\* a test that finds the lock signature in every text
is_lock_error_always(text) == TRUE

\* "database is locked" in error_lower
is_lock_error(text) == text.kind = "locked"

\* a wait that does not grow
delay_constant(retry_count) == 1

\* time.sleep(1.0 * retry_count)
delay(retry_count) == retry_count

\* safe_execute is entered with a func that behaves as fn says, invocation by
\* invocation, and some max_retries
InitRetry ==
    /\ InitManager
    /\ mgrOf = [c \in Callers |-> 0]
    /\ cmds = {}
    /\ remote = <<>>
    /\ \E f \in [1..MaxRetries -> Behaviours], n \in 0..MaxRetries :
         sx = [SxIdle EXCEPT !.pc = "test", !.fn = f, !.max_retries = n]

\* while retry_count < max_retries: ... return None, last_error
safe_execute_test ==
    /\ sx.pc = "test"
    /\ sx' = IF sx.retry_count < sx.max_retries
             THEN [sx EXCEPT !.pc = "call"]
             ELSE [sx EXCEPT !.pc = "done", !.result = None, !.error = sx.last_error]
    /\ UNCHANGED mvars

\* result = func(*args, **kwargs) and the except clause up to the sleep
safe_execute_call ==
    /\ sx.pc = "call"
    /\ LET n == sx.calls + 1
           r == Invoke(sx.fn[n], n)
       IN  sx' =
             IF ~r.raised
             THEN [sx EXCEPT !.calls = n, !.pc = "done", !.result = r.val,
                             !.error = None]
             ELSE IF is_lock_error(r.val)
             THEN [sx EXCEPT !.calls = n, !.last_error = r.val,
                             !.retry_count = @ + 1,
                             !.pc = IF sx.retry_count + 1 < sx.max_retries
                                    THEN "sleep" ELSE "test"]
             ELSE \* break; return None, last_error
                  [sx EXCEPT !.calls = n, !.last_error = r.val, !.pc = "done",
                             !.result = None, !.error = r.val]
    /\ UNCHANGED mvars

\* time.sleep(1.0 * retry_count); continue
safe_execute_sleep ==
    /\ sx.pc = "sleep"
    /\ sx' = [sx EXCEPT !.slept = Append(@, delay(sx.retry_count)), !.pc = "test"]
    /\ UNCHANGED mvars

NextRetry ==
    \/ safe_execute_test
    \/ safe_execute_call
    \/ safe_execute_sleep

SpecRetry == InitRetry /\ [][NextRetry]_vars

Next ==
    \/ \E c \in Callers : execute_command(c)
    \/ \E c \in Callers : execute_command_start(c)
    \/ \E c \in Callers : start(c)
    \/ \E c \in Callers : start_thread(c)
    \/ \E c \in Callers : get_result(c)
    \/ \E c \in Callers : stop(c)
    \/ \E c \in Callers : join(c)
    \/ \E m \in Managers, t \in Threads : run_manager_init(m, t)
    \/ \E m \in Managers, t \in Threads : run_manager_test(m, t)
    \/ \E m \in Managers, t \in Threads : run_manager_get(m, t)
    \/ \E m \in Managers, t \in Threads : run_manager_empty(m, t)
    \/ \E m \in Managers, t \in Threads : run_manager_dispatch(m, t)
    \/ \E m \in Managers, t \in Threads : run_manager_cleanup(m, t)
    \/ \E m \in Managers, t \in Threads : run_manager_close(m, t)

Spec == Init /\ [][Next]_vars

SpecRace == InitRace /\ [][Next]_vars

SpecTwo == InitTwo /\ [][Next]_vars

SpecShut == InitShut /\ [][Next]_vars

SpecData == InitData /\ [][Next]_vars

SpecAll == InitAll /\ [][Next]_vars

SpecFacade == InitFacade /\ [][Next]_vars

\* ==================================================================== claims
ThreadsOf(m) == {t \in Threads : tpc[m][t] # "unborn"}

\* caller c has returned from a facade call that went through the queues
Returned(c) == cpc[c] = "idle" /\ ccall[c].kind = "cmd" /\ cret[c] # NoRes

\* the ids of the commands on a queue are in the order they were put:
\* nextId grows with every put
InOrder(q) == \A i, j \in DOMAIN q : i < j => q[i].id < q[j].id

\* C1: with callers calling concurrently, every facade call returns the
\* result the worker produced for the command this call enqueued.
C1_OwnResult ==
    \A c \in Callers : Returned(c) => cret[c].id = ccall[c].id

\* C2: the results are put on result_queue in the order in which their
\* commands were put on command_queue.
C2_ResultsInOrder ==
    \A m \in Managers : InOrder(result_queue[m])

\* C3: when the worker has left its loop, no command that was put on
\* command_queue before a stop command is still waiting on it.  (Stated for a
\* manager that created one thread only.)
C3_StopDrains ==
    \A m \in Managers :
        (\E t \in Threads : ThreadsOf(m) = {t} /\ tpc[m][t] \in {"cleanup", "close", "dead"})
        => ~ \E i, j \in DOMAIN command_queue[m] :
                 /\ i < j
                 /\ command_queue[m][i].kind # "stop"
                 /\ command_queue[m][j].kind = "stop"

\* C4: a facade call made after stop() has returned (the thread had ended)
\* returns the result of its own command, and the command ran on an open
\* event loop.
C4_RestartOwnResult ==
    \A c \in Callers :
        (Returned(c) /\ ccall[c].afterStop)
        => (cret[c].id = ccall[c].id /\ cret[c].live)

\* the CommandProcessor that self.processor of manager m refers to
Cur(m) == proc[m][processor[m]]
Me(m) == <<m, processor[m]>>

\* thread t of m runs process_command on its command in this step
Dispatches(m, t, kind) ==
    tpc[m][t] = "busy" /\ tcur[m][t].kind = kind /\ tpc'[m][t] # "busy"

\* the locks the process of manager m holds
HeldBy(m) == {x \in Paths : \E t \in 0..MaxThreads : <<m, t>> \in flock[x]}

Falsy == {"False", "None"}

\* C5: a disconnect command that finds a handle releases the handle's lock
\* and clears the handle, whatever the provider's disconnect does.
C5_DisconnectReleases ==
    [][\A m \in Managers, t \in Threads :
         (Dispatches(m, t, "disconnect") /\ HasClient(Cur(m)))
         => /\ ~HasClient(proc'[m][processor[m]])
            /\ Me(m) \notin flock'[Cur(m).client.path]]_vars

\* C6: after a connect command with a false result, the worker does not
\* hold the lock of the command's session path (which it did not hold before
\* the command).
C6_FailedConnectReleases ==
    [][\A m \in Managers, t \in Threads :
         (/\ Dispatches(m, t, "connect")
          /\ tcur[m][t].arg \in Paths
          /\ tcur[m][t].arg \notin HeldBy(m)
          /\ result_queue'[m][Len(result_queue'[m])].val \in Falsy)
         => Me(m) \notin flock'[tcur[m][t].arg]]_vars

\* the provider connections the worker of m has open
Handles(m) ==
    IF processor[m] = 0 THEN 0
    ELSE (IF Cur(m).client.open THEN 1 ELSE 0) + Cur(m).orphans

\* C8: the worker of a manager holds at most one session lock and owns at
\* most one handle (open provider connection).
C8_HeldCount ==
    \A m \in Managers : Cardinality(HeldBy(m)) <= 1 /\ Handles(m) <= 1

\* the threads of the workers
Worker ==
    \E m \in Managers, t \in Threads :
        \/ run_manager_init(m, t) \/ run_manager_test(m, t)
        \/ run_manager_get(m, t) \/ run_manager_empty(m, t)
        \/ run_manager_dispatch(m, t) \/ run_manager_cleanup(m, t)
        \/ run_manager_close(m, t)

\* Spec with worker threads that are scheduled as long as they can run
SpecFair == Spec /\ WF_vars(Worker)

\* a stop() that found the thread of m alive is waiting in its join
Stopping(m) == \E c \in Callers : mgrOf[c] = m /\ cpc[c] = "join"

\* C7: after stop() on a running manager its worker thread ends, and once it
\* has ended the lock of the handle it owned is not held, also when the
\* provider's disconnect failed in the teardown.
C7_StopTerminatesUnlocked ==
    /\ \A m \in Managers : Stopping(m) ~> ~Alive(m)
    /\ [](\A m \in Managers, t \in Threads :
            tpc[m][t] = "dead" => ~IsLocked(proc[m][t], flock, <<m, t>>))

\* a worker has ended after a teardown in which the provider's disconnect
\* failed (the connection is still open), and the handle's lock is free
C7_Witness ==
    \E m \in Managers, t \in Threads :
        /\ tpc[m][t] = "dead"
        /\ stopped[m]
        /\ HasClient(proc[m][t]) /\ proc[m][t].client.open
        /\ flock[proc[m][t].client.path] = {}

\* C9: for every session path at most one FileLock holds the lock file, so
\* at most one of two managers has a handle with a held lock for it.
C9_OneHolder ==
    \A x \in Paths :
        /\ Cardinality(flock[x]) <= 1
        /\ Cardinality({m \in Managers : \E t \in Threads :
                            /\ proc[m][t].client.path = x
                            /\ <<m, t>> \in flock[x]}) <= 1

\* one manager holds the lock of a path on which the other manager's connect
\* has just been refused
C9_Witness ==
    \E m, n \in Managers :
        /\ m # n
        /\ proc[m][1].client.path = "pA" /\ proc[m][1].client.open
        /\ <<m, 1>> \in flock["pA"]
        /\ ~HasClient(proc[n][1])
        /\ \E i \in DOMAIN result_queue[n] :
               result_queue[n][i].kind = "connect" /\ result_queue[n][i].val = "False"

\* C10: processing a command never ends the worker loop: the thread puts
\* exactly one result for the command (None for an unknown kind or a
\* malformed payload), goes back to the test of the loop with its event loop
\* as it was, and leaves the loop only when self.running is found unset.
C10_FailureKeepsLoop ==
    [][\A m \in Managers, t \in Threads :
         /\ (tpc[m][t] = "busy" /\ tpc'[m][t] # "busy")
            => /\ tpc'[m][t] = "check"
               /\ Len(result_queue'[m]) = Len(result_queue[m]) + 1
               /\ result_queue'[m][Len(result_queue'[m])].id = tcur[m][t].id
               /\ (tcur[m][t].kind = "bogus" \/ tcur[m][t].arg = "bad")
                  => result_queue'[m][Len(result_queue'[m])].val = "None"
               /\ tcur[m][t].kind # "stop"
                  => /\ proc'[m][processor[m]].loop = Cur(m).loop
                     /\ proc'[m][processor[m]].running = Cur(m).running
         /\ (tpc'[m][t] \in {"cleanup", "close", "dead"}
             /\ tpc[m][t] \notin {"cleanup", "close", "dead"})
            => (tpc[m][t] = "check" /\ ~running[m])]_vars

\* a caller got None for a failed command and the same thread is processing
\* the next command
C10_Witness ==
    \E m \in Managers, c \in Callers :
        /\ mgrOf[c] = m
        /\ cret[c].val = "None" /\ cret[c].kind \in {"bogus", "connect"}
        /\ ThreadsOf(m) = {1}
        /\ tpc[m][1] = "busy" /\ tcur[m][1].id > cret[c].id

\* C11: a get_channels or get_channel_data command that ran on an open event
\* loop never yields None: a failure of the provider, the authorization check
\* included, gives the empty list and the empty table.
C11_EmptySentinel ==
    \A m \in Managers : \A i \in DOMAIN result_queue[m] :
        LET r == result_queue[m][i] IN
        /\ (r.live /\ r.kind = "get_channels") => r.val \in {"[]", "channels"}
        /\ (r.live /\ r.kind = "get_channel_data") => r.val = "table"

\* what a facade method can return: True, False, None, a list, a DataFrame
Values == {"True", "False", "None", "[]", "channels", "table"}

\* C12: a facade call that completes returns a value; no exception of a
\* handler or of the provider reaches the result queue or the caller.
C12_FacadeReturns ==
    /\ \A m \in Managers : \A i \in DOMAIN result_queue[m] :
           result_queue[m][i].val \in Values
    /\ \A c \in Callers : cret[c] # NoRes => cret[c].val \in Values

\* a caller has returned from a connect that failed and from nothing else, the
\* worker holding no lock (the acquisition timed out or the handle was not made)
C12_Witness ==
    \E c \in Callers :
        /\ Returned(c) /\ cret[c].kind = "connect" /\ cret[c].val = "False"
        /\ cret[c].id = 1 /\ cret[c].live
        /\ \A x \in Paths : flock[x] = {}

\* safe_execute has returned
Done == sx.pc = "done"

\* the first k invocations of func raise the lock error
LockedUpTo(k) == \A i \in 1..k : sx.fn[i] = "locked"

\* C13: when func raises the lock error exactly k < max_retries times and
\* then returns a value, safe_execute returns (that value, None) and func was
\* invoked k + 1 times.
C13_RetryThenSuccess ==
    \A k \in 0..MaxRetries :
        (Done /\ k < sx.max_retries /\ LockedUpTo(k) /\ sx.fn[k + 1] = "value")
        => /\ sx.result = [kind |-> "value", at |-> k + 1]
           /\ sx.error = None
           /\ sx.calls = k + 1

\* func failed twice with the lock error and then returned, with max_retries 3
C13_Witness ==
    /\ Done /\ sx.max_retries = 3 /\ sx.calls = 3
    /\ sx.fn[1] = "locked" /\ sx.fn[2] = "locked" /\ sx.fn[3] = "value"
    /\ sx.result.kind = "value" /\ sx.slept = <<1, 2>>

\* C14: when an invocation of func raises another error than the lock error,
\* func is not invoked again and safe_execute returns (None, the text of that
\* error) without a sleep after it.
C14_OtherFailureSurfaces ==
    \A k \in 0..MaxRetries :
        (Done /\ k < sx.max_retries /\ LockedUpTo(k) /\ sx.fn[k + 1] = "other")
        => /\ sx.result = None
           /\ sx.error = [kind |-> "other", at |-> k + 1]
           /\ sx.calls = k + 1
           /\ Len(sx.slept) = k

\* the first invocation raised another error, and the second one after a
\* lock error did
C14_Witness ==
    /\ Done /\ sx.max_retries >= 2
    /\ sx.fn[1] = "locked" /\ sx.fn[2] = "other"
    /\ sx.calls = 2 /\ sx.error.kind = "other" /\ sx.slept = <<1>>

\* C15: func is invoked at most max_retries times; the n-th sleep is n
\* seconds long and there are at most max_retries - 1 sleeps, none after the
\* last failed invocation; when all max_retries invocations raise the lock
\* error, safe_execute returns (None, the text of the last one).
C15_BoundAndBackoff ==
    /\ sx.calls <= sx.max_retries
    /\ \A n \in DOMAIN sx.slept : sx.slept[n] = n
    /\ sx.max_retries >= 1 => Len(sx.slept) <= sx.max_retries - 1
    /\ Len(sx.slept) <= sx.calls
    /\ Done => Len(sx.slept) < sx.calls \/ sx.calls = 0
    /\ (Done /\ sx.max_retries >= 1 /\ LockedUpTo(sx.max_retries))
       => /\ sx.result = None
          /\ sx.error = [kind |-> "locked", at |-> sx.max_retries]
          /\ sx.calls = sx.max_retries
          /\ Len(sx.slept) = sx.max_retries - 1

\* all three invocations raised the lock error
C15_Witness ==
    /\ Done /\ sx.max_retries = 3 /\ LockedUpTo(3)
    /\ sx.calls = 3 /\ sx.slept = <<1, 2>> /\ sx.error.at = 3

\* C16: when the first invocation is a connect whose lock acquisition timed
\* out and max_retries allows another one, safe_execute invokes connect again
\* before it returns.
C16_LockTimeoutRetried ==
    (Done /\ sx.max_retries >= 2 /\ sx.fn[1] = "timeout") => sx.calls >= 2

\* C17: a stop() that follows a stop() which has returned, with no other call
\* in between, puts nothing on command_queue and leaves self.running alone.
C17_StopIdempotent ==
    [][\A c \in Callers :
         (cpc[c] = "idle" /\ ccall[c].kind = "stop" /\ cpc'[c] = "join")
         => (command_queue' = command_queue /\ running' = running)]_vars

\* the steps of thread t of manager m
WorkerOf(m, t) ==
    \/ run_manager_init(m, t) \/ run_manager_test(m, t)
    \/ run_manager_get(m, t) \/ run_manager_empty(m, t)
    \/ run_manager_dispatch(m, t) \/ run_manager_cleanup(m, t)
    \/ run_manager_close(m, t)

\* SpecRace with every started thread running as long as it can, and with
\* callers that take a result when one is there
SpecLive ==
    /\ SpecRace
    /\ \A m \in Managers, t \in Threads : WF_vars(WorkerOf(m, t))
    /\ \A c \in Callers : WF_vars(get_result(c))

\* no stop() is in progress
NoStop == \A c \in Callers : cpc[c] # "join"

\* the places where command id or its result is
Places(id) ==
    Cardinality({<<m, i>> \in Managers \X (1..MaxCmds) :
                     i <= Len(command_queue[m]) /\ command_queue[m][i].id = id})
    + Cardinality({<<m, t>> \in Managers \X Threads : tcur[m][t].id = id})
    + Cardinality({<<m, i>> \in Managers \X (1..MaxCmds) :
                     i <= Len(result_queue[m]) /\ result_queue[m][i].id = id})
    + Cardinality({c \in Callers : cret[c].id = id})

\* C18: if stop() is never called, every facade call that has put its command
\* returns, and every command is taken off the queue by one thread only and
\* has one result.
C18_EveryCallReturns ==
    ([]NoStop) =>
        /\ \A c \in Callers : (cpc[c] = "get") ~> (cpc[c] = "idle")
        /\ [](\A id \in 1..MaxCmds : Places(id) <= 1)

\* both callers have put a command, both have returned, and nobody stopped
C18_Witness ==
    /\ \A c \in Callers : Returned(c) /\ cret[c].id \in {1, 2}
    /\ \A m \in Managers : ~stopped[m] /\ running[m] = (m = 1)
    /\ nextId = 3 /\ NoStop

\* the results of get_channel_data commands whose handler found a handle, was
\* authorized and met no failure of the provider
CleanData ==
    {r \in UNION {{result_queue[m][i] : i \in DOMAIN result_queue[m]} : m \in Managers}
            \cup {cret[c] : c \in Callers} :
        r.kind = "get_channel_data" /\ r.clean}

\* the message has a text with a character that is no white space
NonBlank(message) ==
    ~message.none /\ \E k \in DOMAIN message.text : message.text[k] # " "

\* the text from its first to its last character that is no white space
Trimmed(text) ==
    LET ks == {k \in DOMAIN text : text[k] # " "}
        lo == CHOOSE k \in ks : \A j \in ks : k <= j
        hi == CHOOSE k \in ks : \A j \in ks : k >= j
    IN  SubSeq(text, lo, hi)

\* the pairs (dialog, message) that get_channel_data(names, limit) reports
Pairs(names, limit) ==
    UNION {{<<i, j>> : j \in {j \in DOMAIN remote[i].msgs :
                                 j <= limit /\ NonBlank(remote[i].msgs[j])}} :
           i \in {i \in DOMAIN remote : remote[i].name \in names}}

\* dialog order, then message order
Before(p, q) == p[1] < q[1] \/ (p[1] = q[1] /\ p[2] < q[2])

Rank(p, S) == Cardinality({q \in S : Before(q, p)}) + 1

\* C19: get_channel_data(names, limit) on an authorized handle returns one
\* row per pair of a dialog whose name is in names and one of its first limit
\* messages whose text is not blank, in dialog order then message order, with
\* the trimmed text; no row has an empty or blank text.
C19_RowsOfChannelData ==
    \A r \in CleanData :
        LET S == Pairs(r.names, r.limit) IN
        /\ Len(r.rows) = Cardinality(S)
        /\ \A p \in S :
              r.rows[Rank(p, S)] =
                  [channel |-> remote[p[1]].name,
                   text |-> Trimmed(remote[p[1]].msgs[p[2]].text),
                   views |-> remote[p[1]].msgs[p[2]].views]
        /\ \A k \in DOMAIN r.rows :
              \E j \in DOMAIN r.rows[k].text : r.rows[k].text[j] # " "

\* dialogs A [(hi, 5), (empty, 3)] and B [(hi, 9)] gave the rows (A, hi, 5)
\* and (B, hi, 9)
C19_Witness ==
    /\ remote = <<Dialog("A", TRUE, <<Message(Hi, 5), Message(<<>>, 3)>>),
                   Dialog("B", TRUE, <<Message(Hi, 9)>>)>>
    /\ \E r \in CleanData :
          /\ r.names = {"A", "B"} /\ r.limit = 2
          /\ r.rows = <<[channel |-> "A", text |-> Hi, views |-> 5],
                        [channel |-> "B", text |-> Hi, views |-> 9]>>

\* C20: a get_channel_data command changes nothing of the worker (handle,
\* lock, event loop), and with the same names and limit it returns the rows
\* an earlier one returned from the same dialogs and messages.
C20_ChannelDataIdempotent ==
    [][\A m \in Managers, t \in Threads :
         Dispatches(m, t, "get_channel_data")
         => /\ proc' = proc /\ flock' = flock
            /\ LET new == result_queue'[m][Len(result_queue'[m])] IN
               \A r \in CleanData :
                   (new.clean /\ r.names = new.names /\ r.limit = new.limit)
                   => new.rows = r.rows]_vars

\* the caller holds the rows of one get_channel_data and the rows of a second
\* one with the same payload are on the result queue
C20_Witness ==
    \E c \in Callers, m \in Managers :
        /\ cret[c] \in CleanData /\ cret[c].rows # <<>>
        /\ Len(result_queue[m]) = 1
        /\ result_queue[m][1] \in CleanData
        /\ result_queue[m][1].names = cret[c].names
        /\ result_queue[m][1].limit = cret[c].limit
        /\ result_queue[m][1].id > cret[c].id

\* the results of get_channels commands whose handler found a handle, was
\* authorized and got the dialogs
CleanLists ==
    {r \in UNION {{result_queue[m][i] : i \in DOMAIN result_queue[m]} : m \in Managers}
            \cup {cret[c] : c \in Callers} :
        r.kind = "get_channels" /\ r.clean}

\* the dialogs whose entity is a Channel
ChannelDialogs == {i \in DOMAIN remote : remote[i].channel}

\* C21: get_channels on an authorized handle returns the names of the
\* dialogs whose entity is a channel, each once, in the order of the dialogs,
\* and no name of another dialog.
C21_ChannelNames ==
    \A r \in CleanLists :
        /\ Len(r.rows) = Cardinality(ChannelDialogs)
        /\ \A i \in ChannelDialogs :
              r.rows[Cardinality({j \in ChannelDialogs : j <= i})] = remote[i].name

\* of the dialogs B (no channel) and A (a channel) only A was returned
C21_Witness ==
    /\ Len(remote) = 2 /\ ~remote[1].channel /\ remote[1].name = "B"
    /\ \E r \in CleanLists : r.rows = <<"A">>

\* caller c puts the command of its facade call in this step
Puts(c) == cpc[c] # "get" /\ cpc'[c] = "get"

\* the command a step has put on the queue of m
Newest(m) == command_queue'[m][Len(command_queue'[m])]

\* the path connect puts for a session directory: /app/sessions/sA, which
\* Paths names pA, for the relative sA, and an absolute path as it is
ExpectedPath(dir) ==
    CASE dir = "sA" -> "pA"
      [] dir = "tmp/../sA" -> "pA"
      [] OTHER -> dir

\* C22: connect puts one connect command whose path is the session directory
\* made absolute under <working directory>/sessions when it is relative and
\* unchanged when it is absolute; the lock the worker then acquires is the
\* lock file of that path.
C22_ConnectResolvesPath ==
    [][/\ \A c \in Callers :
            (Puts(c) /\ ccall'[c].call.kind = "connect")
            => LET m == mgrOf[c] IN
               /\ Len(command_queue'[m]) = Len(command_queue[m]) + 1
               /\ Newest(m).kind = "connect"
               /\ Newest(m).arg = ExpectedPath(ccall'[c].call.arg)
       /\ \A m \in Managers, t \in Threads :
            (/\ Dispatches(m, t, "connect")
             /\ result_queue'[m][Len(result_queue'[m])].val = "True")
            => /\ proc'[m][processor[m]].client.path = tcur[m][t].arg
               /\ Me(m) \in flock'[tcur[m][t].arg]]_vars

\* connect("tmp/../sA") has returned True and the worker holds the lock of
\* /app/sessions/sA
C22_Witness ==
    \E c \in Callers :
        /\ Returned(c) /\ cret[c].id = ccall[c].id
        /\ ccall[c].call.kind = "connect" /\ ccall[c].call.arg = "tmp/../sA"
        /\ cret[c].val = "True"
        /\ <<mgrOf[c], 1>> \in flock["pA"]

\* the methods of the facade other than connect, with the kind of their command
Methods ==
    {"is_authorized", "send_code_request", "sign_in", "get_channels",
     "get_channel_data", "disconnect"}

ExpectedKind(method) == IF method = "send_code_request" THEN "send_code" ELSE method

\* C23: each of is_authorized, send_code_request, sign_in, get_channels,
\* get_channel_data and disconnect puts exactly one command, of its kind and
\* with its arguments as payload, and the call returns what it takes from
\* result_queue as it is.
C23_OneCommandPerMethod ==
    [][\A c \in Callers :
         LET m == mgrOf[c] IN
         /\ (Puts(c) /\ ccall'[c].call.kind \in Methods)
            => /\ Len(command_queue'[m]) = Len(command_queue[m]) + 1
               /\ SubSeq(command_queue'[m], 1, Len(command_queue[m])) = command_queue[m]
               /\ Newest(m) = [id |-> ccall'[c].id,
                               kind |-> ExpectedKind(ccall'[c].call.kind),
                               arg |-> ccall'[c].call.arg,
                               code |-> ccall'[c].call.code,
                               names |-> ccall'[c].call.names,
                               limit |-> ccall'[c].call.limit]
         /\ (cpc[c] = "get" /\ cpc'[c] = "idle")
            => cret'[c] = Head(result_queue[m])]_vars

\* send_code_request has returned the True of its send_code command
C23_Witness ==
    \E c \in Callers :
        /\ Returned(c) /\ cret[c].id = ccall[c].id
        /\ ccall[c].call.kind = "send_code_request"
        /\ cret[c].kind = "send_code" /\ cret[c].val = "True"

\* the commands of terms of service
TermsKinds ==
    {"get_terms_of_service_update", "accept_terms_of_service",
     "decline_terms_of_service"}

\* C24: a terms-of-service command that the worker dispatches while it has a
\* handle is passed to the provider and is not answered with None as an
\* unknown command.
C24_TermsDispatched ==
    [][\A m \in Managers, t \in Threads :
         (/\ \E k \in TermsKinds : Dispatches(m, t, k)
          /\ HasClient(Cur(m)) /\ Cur(m).loop = "open")
         => LET new == result_queue'[m][Len(result_queue'[m])] IN
            new.val # "None" /\ new.prov # <<>>]_vars

\* C25: whenever the provider connection of a handle is open, the lock of
\* the handle's session path is held by that handle.
C25_LockWhileOpen ==
    \A m \in Managers, t \in Threads :
        proc[m][t].client.open => IsLocked(proc[m][t], flock, <<m, t>>)

\* what a command yields when the worker has no handle
WithoutHandle(kind) ==
    CASE kind = "disconnect" -> "True"
      [] kind = "get_terms_of_service_update" -> "None"
      [] OTHER -> "False"

\* C26: without a handle is_authorized, send_code, sign_in and the accepting
\* and declining of terms yield False, the terms update yields None and
\* disconnect yields True; no operation of the provider is invoked and the
\* handle, the locks and the event loop stay as they are.
C26_NoHandleNoEffect ==
    [][\A m \in Managers, t \in Threads :
         (/\ \E k \in {"is_authorized", "send_code", "sign_in", "disconnect"}
                       \cup TermsKinds : Dispatches(m, t, k)
          /\ ~HasClient(Cur(m)) /\ Cur(m).loop = "open")
         => LET new == result_queue'[m][Len(result_queue'[m])] IN
            /\ new.val = WithoutHandle(new.kind)
            /\ new.prov = <<>>
            /\ proc' = proc /\ flock' = flock]_vars

\* the operations of the provider that read dialogs and messages
Reads(prov) == \E i \in DOMAIN prov : prov[i].op \in {"get_dialogs", "get_messages"}

\* C27: get_channels and get_channel_data invoke get_dialogs or get_messages
\* only on a handle that exists and that the provider has just reported
\* authorized; without a handle, or when the provider reports it not
\* authorized, they return the empty list and the empty table.
C27_ReadsOnlyAuthorized ==
    [][\A m \in Managers, t \in Threads :
         (\E k \in {"get_channels", "get_channel_data"} : Dispatches(m, t, k))
         => LET new == result_queue'[m][Len(result_queue'[m])]
                empty == /\ new.rows = <<>>
                         /\ new.val = IF new.kind = "get_channels" THEN "[]" ELSE "table"
            IN  /\ Reads(new.prov)
                   => (HasClient(Cur(m)) /\ new.prov[1] = Op("is_authorized", "true"))
                /\ ~HasClient(Cur(m)) => (new.prov = <<>> /\ empty)
                /\ (new.prov # <<>> /\ new.prov[1] = Op("is_authorized", "false"))
                   => (Len(new.prov) = 1 /\ empty)]_vars

\* a get_channel_data found the handle not authorized and returned the
\* empty table after the authorization check alone
C27_Witness ==
    \E m \in Managers : \E i \in DOMAIN result_queue[m] :
        /\ result_queue[m][i].kind = "get_channel_data"
        /\ result_queue[m][i].prov = <<Op("is_authorized", "false")>>
        /\ result_queue[m][i].val = "table" /\ result_queue[m][i].rows = <<>>
        /\ HasClient(Cur(m))

\* C28: a manager has at most one worker thread that has been started and has
\* not ended, and at most one command is being processed.
C28_OneWorker ==
    \A m \in Managers :
        /\ Cardinality({t \in Threads : tpc[m][t] \notin {"unborn", "dead"}}) <= 1
        /\ Cardinality({t \in Threads : tpc[m][t] = "busy"}) <= 1

\* C29: a worker whose processor has handled a stop command (its event loop
\* is closed) processes no further command.
C29_StoppedIsTerminal ==
    [][\A m \in Managers, t \in Threads :
         (tpc[m][t] = "busy" /\ tpc'[m][t] # "busy") => Cur(m).loop = "open"]_vars

\* C30: between two commands a worker that has a handle holds the lock of
\* the handle, and after a connect that returned False it has no handle.
C30_HandleImpliesLock ==
    \A m \in Managers, t \in Threads :
        (tpc[m][t] \in {"check", "poll"} /\ processor[m] = t /\ proc[m][t].loop = "open")
        => /\ HasClient(proc[m][t]) => IsLocked(proc[m][t], flock, <<m, t>>)
           /\ \A i \in DOMAIN result_queue[m] :
                 (/\ i = Len(result_queue[m])
                  /\ result_queue[m][i].kind = "connect"
                  /\ result_queue[m][i].val = "False")
                 => ~HasClient(proc[m][t])

\* no facade call is in progress on m, and every thread of m has ended or is
\* waiting for a command on the empty command_queue
AtRest(m) ==
    /\ \A c \in Callers : mgrOf[c] = m => cpc[c] = "idle"
    /\ \A t \in Threads :
          \/ tpc[m][t] \in {"unborn", "dead"}
          \/ tpc[m][t] = "poll" /\ command_queue[m] = <<>>

\* C31: when no facade call is in progress on a manager and its worker is
\* waiting or has ended, command_queue and result_queue are empty, also after
\* stop().
C31_QueuesEmptyAtRest ==
    \A m \in Managers :
        AtRest(m) => (command_queue[m] = <<>> /\ result_queue[m] = <<>>)

\* C33: a connect for the session path whose lock the worker's handle holds
\* (a second connect without a disconnect) times out on the lock, yields
\* False and leaves the handle, its connection and the held lock as they were.
C33_SecondConnectRefused ==
    [][\A m \in Managers, t \in Threads :
         (/\ Dispatches(m, t, "connect")
          /\ IsLocked(Cur(m), flock, Me(m))
          /\ tcur[m][t].arg = Cur(m).client.path
          /\ Cur(m).loop = "open")
         => LET new == result_queue'[m][Len(result_queue'[m])] IN
            /\ new.val # "True"
            /\ new.prov = <<Op("acquire", "timeout")>> <=> new.val = "False"
            /\ new.prov = <<>> <=> new.val = "None"
            /\ proc' = proc /\ flock' = flock]_vars

\* the first connect opened the connection under the lock of pA, the second
\* connect for pA has been refused after the timeout, and the handle is open
\* and locked as before
C33_Witness ==
    \E m \in Managers, c \in Callers :
        /\ mgrOf[c] = m
        /\ cret[c].kind = "connect" /\ cret[c].val = "True" /\ cret[c].id = 1
        /\ Len(result_queue[m]) = 1
        /\ result_queue[m][1].kind = "connect" /\ result_queue[m][1].id = 2
        /\ result_queue[m][1].val = "False"
        /\ result_queue[m][1].prov = <<Op("acquire", "timeout")>>
        /\ Cur(m).client = [path |-> "pA", open |-> TRUE, torn |-> 0]
        /\ flock["pA"] = {Me(m)}

\* the results of the get_channel_data commands
DataResults ==
    {r \in UNION {{result_queue[m][i] : i \in DOMAIN result_queue[m]} : m \in Managers}
            \cup {cret[c] : c \in Callers} :
        r.kind = "get_channel_data"}

\* the calls of get_dialogs and get_messages among the operations prov
Fetches(prov) == {i \in DOMAIN prov : prov[i].op \in {"get_dialogs", "get_messages"}}

\* C34: when get_dialogs or one of the get_messages calls of a
\* get_channel_data raises, also after rows of earlier dialogs were collected,
\* the result is the empty table; the calls are made one after another, one
\* get_messages per dialog named, and none after a call that raised.
C34_AllOrNothing ==
    \A r \in DataResults :
        LET targets == {i \in DOMAIN remote : remote[i].name \in r.names}
            calls == {i \in DOMAIN r.prov : r.prov[i].op = "get_messages"}
        IN  /\ (\E i \in Fetches(r.prov) : r.prov[i].ret = "raise")
               => (r.val = "table" /\ r.rows = <<>>)
            /\ \A i \in DOMAIN r.prov : r.prov[i].ret = "raise" => i = Len(r.prov)
            /\ Cardinality(calls) <= Cardinality(targets)
            /\ r.clean => Cardinality(calls) = Cardinality(targets)

\* of the dialogs A and B, both named, the messages of A gave a row and the
\* get_messages for B raised: the result is the empty table
C34_Witness ==
    /\ remote = <<Dialog("A", TRUE, <<Message(Hi, 5), Message(<<>>, 3)>>),
                   Dialog("B", TRUE, <<Message(Hi, 9)>>)>>
    /\ \E r \in DataResults :
          /\ r.names = {"A", "B"} /\ r.limit = 1
          /\ r.prov = <<Op("is_authorized", "true"), Op("get_dialogs", "ok"),
                        Op("get_messages", "ok"), Op("get_messages", "raise")>>
          /\ r.val = "table" /\ r.rows = <<>>

\* the invocations of func that returned a value
Returns == {n \in 1..sx.calls : ~Invoke(sx.fn[n], n).raised}

\* C35: for every max_retries, 0 included, safe_execute returns the error
\* None iff an invocation of func returned, and then the result is what that
\* invocation returned; otherwise the result is None and the error is the
\* text of the last failure.
C35_ReturnConsistent ==
    Done =>
        /\ sx.error = None <=> Returns # {}
        /\ sx.error = None => sx.result = Invoke(sx.fn[sx.calls], sx.calls).val
        /\ sx.error # None
           => /\ sx.result = None
              /\ sx.error = Invoke(sx.fn[sx.calls], sx.calls).val

\* C32: in the shutdown of a worker the provider's disconnect is invoked at
\* most once on the worker's handle, and only while the event loop of the
\* worker is open.
C32_TeardownOnce ==
    [][\A m \in Managers, t \in Threads :
         /\ proc'[m][t].client.torn <= 1
         /\ proc'[m][t].client.torn > proc[m][t].client.torn
            => proc[m][t].loop = "open"]_vars

====
